---------------------------- MODULE Spec2Model ----------------------------
(***************************************************************************)
(* A model of the dnsparse crate: the name/label decoder (name.rs), the    *)
(* record readers (question.rs, answer.rs), the message codec              *)
(* (message.rs) and the header counts (header.rs).                         *)
(*                                                                         *)
(* Buffers are sequences of bytes (0..255).  Offsets are 0-based as in the *)
(* source; byte i of a buffer b is b[i + 1].                               *)
(***************************************************************************)
EXTENDS Integers, Sequences, FiniteSets, TLC

VARIABLES
  buf,      \* Message.buf / the buffer a Name is decoded from
  len,      \* Message.len, the logical length
  pc,       \* position of the running scenario
  dec,      \* the frame of Name::read::read_rec being executed
  it,       \* the Questions / Answers iterators
  hist,     \* history of the builder calls made (not program state)
  args,     \* arguments of the pure operations under test
  res       \* result of the last operation

vars == <<buf, len, pc, dec, it, hist, args, res>>

(***************************************************************************)
(* Bytes                                                                   *)
(***************************************************************************)
PTR_MASK == 192

LEN_MASK == 63

HEADER_SIZE == 12

MAX_MESSAGE_SIZE == 512 - HEADER_SIZE

\* buf.get(i).is_some()
InBuf(b, i) == i >= 0 /\ i < Len(b)

\* buf[i]
At(b, i) == b[i + 1]

\* &buf[from..to]
Slice(b, from, to) == SubSeq(b, from + 1, to)

\* u16::from_be_bytes([hi, lo])
U16(hi, lo) == hi * 256 + lo

\* n.to_be_bytes() of a u16
U16Bytes(n) == <<(n \div 256) % 256, n % 256>>

\* u32::from_be_bytes([b0, b1, b2, b3]); a u32 is kept as its two 16-bit
\* halves <<high, low>>
U32(b0, b1, b2, b3) == <<U16(b0, b1), U16(b2, b3)>>

\* n.to_be_bytes() of a u32
U32Bytes(n) == U16Bytes(n[1]) \o U16Bytes(n[2])

\* b & PTR_MASK == PTR_MASK
IsPtrByte(b) == b >= PTR_MASK

RECURSIVE SeqOfLen(_, _)
\* all sequences over S of length exactly n
SeqOfLen(S, n) ==
  IF n = 0 THEN {<<>>}
  ELSE {Append(s, x) : s \in SeqOfLen(S, n - 1), x \in S}

\* all sequences over S of length at most n
SeqUpTo(S, n) == UNION {SeqOfLen(S, k) : k \in 0..n}

(***************************************************************************)
(* LabelType::read: what is at offset i, and the advanced offset.          *)
(***************************************************************************)
LabelTypeRead(b, i) ==
  IF InBuf(b, i)
  THEN LET ptr_or_len == At(b, i) IN
       IF IsPtrByte(ptr_or_len)
       THEN IF InBuf(b, i + 1)
            THEN [kind |-> "Pointer",
                  val  |-> U16(ptr_or_len % (LEN_MASK + 1), At(b, i + 1)),
                  i    |-> i + 2]
            ELSE [kind |-> "None", val |-> 0, i |-> i]
       ELSE [kind |-> "Part",
             val  |-> ptr_or_len % (LEN_MASK + 1),
             i    |-> i + 1 + (ptr_or_len % (LEN_MASK + 1))]
  ELSE [kind |-> "None", val |-> 0, i |-> i]

(***************************************************************************)
(* Name::read.  A frame of read_rec is                                     *)
(*   i            the cursor of the frame                                  *)
(*   out          the caller's *i (frozen once the first pointer is        *)
(*                followed: deeper frames advance a local copy)            *)
(*   rec_start, global_start, iteration, len   as in the source            *)
(*   st           "run", "ok" (returned true) or "fail" (returned false)   *)
(*   why          which return false was taken                            *)
(* and, for the properties only,                                           *)
(*   lo           the least offset a label or pointer was read at          *)
(*   fwd          a followed pointer targeted an offset >= lo              *)
(*   hops         the pointer targets followed since the last label        *)
(*   cyc          a pointer target was followed twice with no label        *)
(*                between: the frame sequence repeats for ever             *)
(***************************************************************************)
ReadStart(i) ==
  [i |-> i, out |-> i, depth |-> 0, rec_start |-> i, global_start |-> i,
   iteration |-> 0, len |-> 0, st |-> "run", why |-> "",
   lo |-> i, fwd |-> FALSE, hops |-> {}, cyc |-> FALSE]

\* the check of name.rs:72, "Stop following self-referencing pointer"
PointerRejected(ptr, d, i) ==
  ptr = d.global_start \/ (ptr >= d.rec_start /\ ptr < i)

\* One pass of the loop of read_rec (a followed pointer is the tail call),
\* given the label lt read at the cursor; top: no pointer was followed yet;
\* lo2: the least offset read at, this one included.
ReadRecOn(d, lt, top, lo2) ==
  CASE lt.kind = "None" ->
         [d EXCEPT !.st = "fail", !.why = "short"]
    [] lt.kind = "Pointer" ->
         IF PointerRejected(lt.val, d, lt.i)
         THEN [d EXCEPT !.st = "fail", !.why = "pointer",
                        !.out = IF top THEN lt.i ELSE @]
         ELSE [d EXCEPT !.i = lt.val, !.rec_start = lt.val,
                        !.out = IF top THEN lt.i ELSE @,
                        !.depth = 1,
                        !.lo = lo2,
                        !.fwd = @ \/ (lt.val >= lo2),
                        !.cyc = @ \/ (lt.val \in d.hops),
                        !.hops = @ \cup {lt.val}]
    [] OTHER ->
         IF lt.val = 0
         THEN [d EXCEPT !.st = "ok", !.i = lt.i, !.lo = lo2,
                        !.out = IF top THEN lt.i ELSE @]
         ELSE IF d.len + lt.val > 255
         THEN [d EXCEPT !.st = "fail", !.why = "len", !.i = lt.i]
         ELSE IF d.iteration + 1 > 255
         THEN [d EXCEPT !.st = "fail", !.why = "iteration", !.i = lt.i]
         ELSE [d EXCEPT !.i = lt.i, !.len = @ + lt.val,
                        !.iteration = @ + 1, !.lo = lo2,
                        !.out = IF top THEN lt.i ELSE @,
                        !.hops = {}]

\* a read_rec that counts the length afresh behind the first pointer it
\* follows
ReadRecStepLenPerFrame(b, d) ==
  LET lt == LabelTypeRead(b, d.i)
      r  == ReadRecOn(d, lt, d.depth = 0, IF d.i < d.lo THEN d.i ELSE d.lo)
  IN  IF lt.kind = "Pointer" /\ r.st = "run" /\ d.depth = 0
      THEN [r EXCEPT !.len = 0]
      ELSE r

ReadRecStep(b, d) ==
  ReadRecOn(d, LabelTypeRead(b, d.i), d.depth = 0, IF d.i < d.lo THEN d.i ELSE d.lo)

RECURSIVE ReadRec(_, _)
\* read_rec run until it returns, or until its frames are known to repeat
ReadRec(b, d) ==
  IF d.st # "run" \/ d.cyc THEN d ELSE ReadRec(b, ReadRecStep(b, d))

\* The result of a reader: ok, the advanced *i, and on failure the reason
\* ("diverge": the reader never returns).
ReadOk(i) == [ok |-> TRUE, i |-> i, why |-> ""]

ReadFail(i, why) == [ok |-> FALSE, i |-> i, why |-> why]

\* Name::read(buf, &mut i)
NameResult(d) ==
  IF d.st = "ok" THEN ReadOk(d.out)
  ELSE IF d.st = "fail" THEN ReadFail(d.out, d.why)
  ELSE ReadFail(d.out, "diverge")

NameRead(b, i) == NameResult(ReadRec(b, ReadStart(i)))

(***************************************************************************)
(* The fixed-size fields: query_kind.rs, query_class.rs, question.rs,      *)
(* answer.rs.                                                              *)
(***************************************************************************)
\* impl From<u16> for QueryKind
QueryKindFrom(n) ==
  CASE n = 1 -> "A"       [] n = 2 -> "NS"     [] n = 3 -> "MD"
    [] n = 4 -> "MF"      [] n = 5 -> "CNAME"  [] n = 6 -> "SOA"
    [] n = 7 -> "MB"      [] n = 8 -> "MG"     [] n = 9 -> "MR"
    [] n = 10 -> "NULL"   [] n = 11 -> "WKS"   [] n = 12 -> "PTR"
    [] n = 13 -> "HINFO"  [] n = 14 -> "MINFO" [] n = 15 -> "MX"
    [] n = 16 -> "TXT"    [] n = 252 -> "AXFR" [] n = 253 -> "MAILA"
    [] n = 254 -> "MAILB" [] n = 255 -> "ALL"  [] OTHER -> "Reserved"

\* QueryKind as u16 (the enum's discriminants)
QueryKindU16(k) ==
  CASE k = "A" -> 1       [] k = "NS" -> 2     [] k = "MD" -> 3
    [] k = "MF" -> 4      [] k = "CNAME" -> 5  [] k = "SOA" -> 6
    [] k = "MB" -> 7      [] k = "MG" -> 8     [] k = "MR" -> 9
    [] k = "NULL" -> 10   [] k = "WKS" -> 11   [] k = "PTR" -> 12
    [] k = "HINFO" -> 13  [] k = "MINFO" -> 14 [] k = "MX" -> 15
    [] k = "TXT" -> 16    [] k = "AXFR" -> 252 [] k = "MAILB" -> 253
    [] k = "MAILA" -> 254 [] k = "ALL" -> 255  [] OTHER -> 256

\* impl From<u16> for QueryClass
QueryClassFrom(n) ==
  CASE n = 1 -> "IN" [] n = 2 -> "CS" [] n = 3 -> "CH" [] n = 4 -> "HS"
    [] OTHER -> "Reserved"

\* QueryClass as u16
QueryClassU16(c) ==
  CASE c = "IN" -> 1 [] c = "CS" -> 2 [] c = "CH" -> 3 [] c = "HS" -> 4
    [] OTHER -> 5

\* a reader of a field of n bytes: advance when it fits
FixedRead(b, i, n) ==
  IF i + n <= Len(b) THEN ReadOk(i + n) ELSE ReadFail(i, "short")

\* QueryKind::read
QueryKindRead(b, i) == FixedRead(b, i, 2)

\* QueryClass::read
QueryClassRead(b, i) == FixedRead(b, i, 2)

\* read_query_class_and_kind
ReadQueryClassAndKind(b, i) == FixedRead(b, i, 4)

\* read_ttl
ReadTtl(b, i) == FixedRead(b, i, 4)

\* read_rdata with the cursor left at the rdata instead of behind it
ReadRdataKeepsCursor(b, i) ==
  IF i + 2 <= Len(b)
  THEN LET rdata_len == U16(At(b, i), At(b, i + 1)) IN
       IF i + 2 + rdata_len <= Len(b)
       THEN ReadOk(i + 2)
       ELSE ReadFail(i + 2, "short")
  ELSE ReadFail(i, "short")

\* read_rdata without the check that the declared span fits
ReadRdataUnchecked(b, i) ==
  IF i + 2 <= Len(b)
  THEN ReadOk(i + 2 + U16(At(b, i), At(b, i + 1)))
  ELSE ReadFail(i, "short")

\* read_rdata
ReadRdata(b, i) ==
  IF i + 2 <= Len(b)
  THEN LET rdata_len == U16(At(b, i), At(b, i + 1)) IN
       IF i + 2 + rdata_len <= Len(b)
       THEN ReadOk(i + 2 + rdata_len)
       ELSE ReadFail(i + 2, "short")
  ELSE ReadFail(i, "short")

\* r && reader(buf, i): the reader runs from where r stopped
ThenQueryClassAndKind(b, r) == IF r.ok THEN ReadQueryClassAndKind(b, r.i) ELSE r

ThenKind(b, r) == IF r.ok THEN QueryKindRead(b, r.i) ELSE r

ThenClass(b, r) == IF r.ok THEN QueryClassRead(b, r.i) ELSE r

ThenTtl(b, r) == IF r.ok THEN ReadTtl(b, r.i) ELSE r

ThenRdata(b, r) == IF r.ok THEN ReadRdata(b, r.i) ELSE r

\* read_question / Question::read
QuestionRead(b, i) == ThenQueryClassAndKind(b, NameRead(b, i))

\* Answer::read
AnswerRead(b, i) ==
  ThenRdata(b, ThenTtl(b, ThenClass(b, ThenKind(b, NameRead(b, i)))))

RECURSIVE ReadQuestions(_, _, _)
\* for _ in 0..n { Question::read(buf, &mut i) }, stopping at a failure
ReadQuestions(b, i, n) ==
  IF n = 0 THEN ReadOk(i)
  ELSE LET r == QuestionRead(b, i) IN
       IF r.ok THEN ReadQuestions(b, r.i, n - 1) ELSE r

RECURSIVE ReadAnswers(_, _, _)
\* for _ in 0..n { Answer::read(buf, &mut i) }, stopping at a failure
ReadAnswers(b, i, n) ==
  IF n = 0 THEN ReadOk(i)
  ELSE LET r == AnswerRead(b, i) IN
       IF r.ok THEN ReadAnswers(b, r.i, n - 1) ELSE r

(***************************************************************************)
(* Header counts (header.rs) and Message (message.rs).  A message is the   *)
(* pair of its buffer b and its logical length l.                          *)
(***************************************************************************)
\* Header::question_count
QuestionCount(b) == U16(At(b, 4), At(b, 5))

\* Header::answer_count
AnswerCount(b) == U16(At(b, 6), At(b, 7))

\* Message::as_bytes
AsBytes(b, l) == Slice(b, 0, l)

\* The error the missing Result-returning readers give for a failed read.
ErrorOf(why) ==
  CASE why = "short" -> "MessageTooShort"
    [] why = "pointer" -> "Pointer"
    [] why = "len" -> "NameTooLong"
    [] why = "iteration" -> "NameTooLong"
    [] OTHER -> why

\* a parse that reads no answer
ThenNoAnswers(b, n, r) == r

\* the answers read after the questions
ThenAnswers(b, n, r) == IF r.ok THEN ReadAnswers(b, r.i, n) ELSE r

\* what parse returns for the outcome r of its two loops
ParseResult(r) ==
  IF r.ok THEN [st |-> "ok", err |-> "", len |-> r.i]
  ELSE IF r.why = "diverge" THEN [st |-> "diverge", err |-> "", len |-> 0]
  ELSE [st |-> "err", err |-> ErrorOf(r.why), len |-> 0]

\* a parse whose size check also refuses the largest message
ParseRefusingLargest(b) ==
  IF Len(b) < HEADER_SIZE THEN [st |-> "err", err |-> "MessageTooShort", len |-> 0]
  ELSE IF Len(b) >= HEADER_SIZE + MAX_MESSAGE_SIZE
  THEN [st |-> "err", err |-> "MessageTooLong", len |-> 0]
  ELSE ParseResult(ThenAnswers(b, AnswerCount(b),
                               ReadQuestions(b, HEADER_SIZE, QuestionCount(b))))

\* Message::parse: "ok" with the logical length, "err" with the error, or
\* "diverge" when a name decode never returns.
Parse(b) ==
  IF Len(b) < HEADER_SIZE THEN [st |-> "err", err |-> "MessageTooShort", len |-> 0]
  ELSE IF Len(b) > HEADER_SIZE + MAX_MESSAGE_SIZE
  THEN [st |-> "err", err |-> "MessageTooLong", len |-> 0]
  ELSE ParseResult(ThenAnswers(b, AnswerCount(b),
                               ReadQuestions(b, HEADER_SIZE, QuestionCount(b))))

\* Message::questions_end: the asserted reads over as_bytes()
QuestionsEnd(b, l) == ReadQuestions(AsBytes(b, l), HEADER_SIZE, QuestionCount(b))

\* Message::answers_end
AnswersEnd(b, l) == ThenAnswers(AsBytes(b, l), AnswerCount(b), QuestionsEnd(b, l))

(***************************************************************************)
(* Labels (name.rs).  A Name is [buf, start]; a Labels iterator is its     *)
(* buffer and the cursor buf_i; a Label is the offset of its length byte.  *)
(***************************************************************************)
\* Name::from_bytes
NameFromBytes(bytes) == [buf |-> bytes, start |-> 0]

RECURSIVE LabelsNextFrom(_, _, _)
\* Labels::next from cursor i: [some, label, i] with the advanced cursor;
\* hang: the pointers followed repeat (seen), the loop never ends
LabelsNextFrom(b, i, seen) ==
  LET lt == LabelTypeRead(b, i) IN
  CASE lt.kind = "None" -> [some |-> FALSE, label |-> 0, i |-> i, hang |-> FALSE]
    [] lt.kind = "Pointer" ->
         IF lt.val \in seen
         THEN [some |-> FALSE, label |-> 0, i |-> lt.val, hang |-> TRUE]
         ELSE LabelsNextFrom(b, lt.val, seen \cup {lt.val})
    [] OTHER ->
         IF lt.val = 0
         THEN [some |-> FALSE, label |-> 0, i |-> lt.i, hang |-> FALSE]
         ELSE [some |-> TRUE, label |-> lt.i - lt.val - 1, i |-> lt.i, hang |-> FALSE]

\* Labels::next
LabelsNext(b, i) == LabelsNextFrom(b, i, {})

\* Label::len
LabelLen(b, l) == At(b, l)

\* Label::as_bytes
LabelBytes(b, l) == Slice(b, l + 1, l + 1 + LabelLen(b, l))

\* u8::to_ascii_lowercase
ToAsciiLower(c) == IF c >= 65 /\ c <= 90 THEN c + 32 ELSE c

\* <[u8]>::eq_ignore_ascii_case
EqIgnoreAsciiCase(x, y) ==
  /\ Len(x) = Len(y)
  /\ \A k \in 1..Len(x) : ToAsciiLower(x[k]) = ToAsciiLower(y[k])

RECURSIVE EqualFromLabels(_, _, _, _)
\* the loop of Name::equal_from over the two cursors
EqualFromLabels(b, i, sb, si) ==
  LET t == LabelsNext(b, i)
      o == LabelsNext(sb, si)
  IN
  IF t.some /\ o.some
  THEN IF ~EqIgnoreAsciiCase(LabelBytes(b, t.label), LabelBytes(sb, o.label))
       THEN FALSE
       ELSE EqualFromLabels(b, t.i, sb, o.i)
  ELSE ~t.some /\ ~o.some

RECURSIVE EqualFromExactLabels(_, _, _, _)
\* an equal_from that compares the labels byte for byte
EqualFromExactLabels(b, i, sb, si) ==
  LET t == LabelsNext(b, i)
      o == LabelsNext(sb, si)
  IN
  IF t.some /\ o.some
  THEN IF LabelBytes(b, t.label) # LabelBytes(sb, o.label)
       THEN FALSE
       ELSE EqualFromExactLabels(b, t.i, sb, o.i)
  ELSE ~t.some /\ ~o.some

EqualFromExact(name, i, sub_name) ==
  EqualFromExactLabels(name.buf, i, sub_name.buf, sub_name.start)

\* Name::equal_from
EqualFrom(name, i, sub_name) ==
  EqualFromLabels(name.buf, i, sub_name.buf, sub_name.start)

\* [ptr_1 | PTR_MASK, ptr_2] of (i as u16).to_be_bytes()
PointerBytes(i) == <<PTR_MASK + ((i \div 256) % 64), i % 256>>

RECURSIVE CreatePointerFrom(_, _, _)
\* the loop of Name::create_pointer with the labels cursor at i
CreatePointerFrom(name, i, sub_name) ==
  IF LabelsNext(name.buf, i).some
  THEN IF EqualFrom(name, i, sub_name)
       THEN [some |-> TRUE, ptr |-> PointerBytes(i)]
       ELSE CreatePointerFrom(name, LabelsNext(name.buf, i).i, sub_name)
  ELSE [some |-> FALSE, ptr |-> <<>>]

\* a create_pointer that compares at the name's first label only
CreatePointerAtStartOnly(name, sub_name) ==
  IF LabelsNext(name.buf, name.start).some /\ EqualFrom(name, name.start, sub_name)
  THEN [some |-> TRUE, ptr |-> PointerBytes(name.start)]
  ELSE [some |-> FALSE, ptr |-> <<>>]

\* Name::create_pointer
CreatePointer(name, sub_name) == CreatePointerFrom(name, name.start, sub_name)

\* Name::split: the first label and the name of the rest; unwrap panics on
\* a name without labels
SplitOn(name, first, second) ==
  [panic |-> ~first.some,
   label |-> first.label,
   rest  |-> second.some,
   name  |-> [buf |-> name.buf, start |-> second.label]]

SplitAfter(name, first) == SplitOn(name, first, LabelsNext(name.buf, first.i))

Split(name) == SplitAfter(name, LabelsNext(name.buf, name.start))

RECURSIVE NameEqFrom(_, _, _, _)
\* the loop of <Name as PartialEq<str>>::eq with the labels cursor at i:
\* "true", "false", "panic" (a label's slice leaves the buffer) or "hang"
NameEqFrom(b, i, other, other_i) ==
  LET n == LabelsNext(b, i)
      at == IF other_i # 0 THEN other_i + 1 ELSE other_i
  IN
  IF n.hang THEN "hang"
  ELSE IF ~n.some THEN IF other_i = Len(other) THEN "true" ELSE "false"
  ELSE IF other_i # 0 /\ (other_i >= Len(other) \/ other[other_i + 1] # 46)
  THEN "false"
  ELSE IF at + LabelLen(b, n.label) > Len(other) THEN "false"
  ELSE IF n.label + 1 + LabelLen(b, n.label) > Len(b) THEN "panic"
  ELSE IF ~EqIgnoreAsciiCase(LabelBytes(b, n.label),
                             SubSeq(other, at + 1, at + LabelLen(b, n.label)))
  THEN "false"
  ELSE NameEqFrom(b, n.i, other, at + LabelLen(b, n.label))

\* name == other
NameEq(name, other) == NameEqFrom(name.buf, name.start, other, 0)

RECURSIVE DisplayFrom(_, _, _, _)
\* the loop of <Name as Display>::fmt: the text written so far, and "ok",
\* "panic" (a label's slice leaves the buffer) or "hang"
DisplayFrom(b, i, print_dot, text) ==
  LET n == LabelsNext(b, i) IN
  IF n.hang THEN [st |-> "hang", text |-> text]
  ELSE IF ~n.some THEN [st |-> "ok", text |-> text]
  ELSE IF n.label + 1 + LabelLen(b, n.label) > Len(b)
  THEN [st |-> "panic", text |-> text]
  ELSE DisplayFrom(b, n.i, TRUE,
                   text \o (IF print_dot THEN <<46>> ELSE <<>>)
                        \o LabelBytes(b, n.label))

\* name.to_string()
Display(name) == DisplayFrom(name.buf, name.start, FALSE, <<>>)

(***************************************************************************)
(* Decoding one name, step by step.                                        *)
(***************************************************************************)
MaxNameBuf == 6

NameBytes == {0, 1, 2, 4, 192}

NameStarts == {0, 2}

NoIt == [st |-> "none"]

NoHist == [nq |-> 0, na |-> 0]

InitRead ==
  /\ buf \in SeqUpTo(NameBytes, MaxNameBuf)
  /\ \E s \in NameStarts : dec = ReadStart(s)
  /\ len = Len(buf)
  /\ pc = "read"
  /\ it = NoIt
  /\ hist = NoHist
  /\ args = <<>>
  /\ res = "none"

ReadStep ==
  /\ pc = "read"
  /\ dec.st = "run"
  /\ dec' = ReadRecStep(buf, dec)
  /\ UNCHANGED <<buf, len, pc, it, hist, args, res>>

NextRead == ReadStep

SpecRead == InitRead /\ [][NextRead]_vars

\* read_rec is re-entered or looped as long as it has not returned
FairSpecRead == SpecRead /\ WF_vars(ReadStep)

(***************************************************************************)
(* Parsing a received buffer and iterating over its records.               *)
(***************************************************************************)
MaxQ == 2

MaxA == 1

\* name fields put into the generated questions: the root, "a", and
\* pointers to offsets 12 (the first name), 18 and 24
ParseNames == {<<0>>, <<1, 97, 0>>, <<192, 12>>, <<192, 18>>, <<192, 24>>}

\* name fields put into the generated answers
AnswerNames == {<<192, 12>>, <<192, 18>>}

\* rdata of the generated answers
ParseRdata == {<<>>, <<7, 7>>}

\* bytes that follow the last generated record
ParseTrailers == {<<>>, <<0>>}

QuestionBytes == {nm \o <<0, 1, 0, 1>> : nm \in ParseNames}

AnswerBytes ==
  {nm \o <<0, 1, 0, 1, 0, 0, 0, 60>> \o U16Bytes(Len(rd)) \o rd :
     nm \in AnswerNames, rd \in ParseRdata}

RECURSIVE Flatten(_)
Flatten(ss) == IF ss = <<>> THEN <<>> ELSE Head(ss) \o Flatten(Tail(ss))

\* a header with the given counts and every other field zero
HeaderBytes(qd, an) == <<0, 0, 0, 0>> \o U16Bytes(qd) \o U16Bytes(an) \o <<0, 0, 0, 0>>

ParseInputs ==
  {HeaderBytes(qd, an) \o Flatten(qs) \o Flatten(as) \o tr :
     qd \in 0..MaxQ, an \in 0..MaxA,
     qs \in SeqUpTo(QuestionBytes, MaxQ), as \in SeqUpTo(AnswerBytes, MaxA),
     tr \in ParseTrailers}
  \cup {<<0, 0, 0>>}

InitParse ==
  /\ buf \in ParseInputs
  /\ len = Len(buf)
  /\ pc = "input"
  /\ dec = ReadStart(0)
  /\ it = NoIt
  /\ hist = [nq |-> 0, na |-> 0, input |-> buf]
  /\ args = <<>>
  /\ res = "none"

\* Message::parse(buffer)
ParseAct ==
  /\ pc = "input"
  /\ res' = Parse(buf)
  /\ pc' = CASE res'.st = "ok" -> "parsed"
             [] res'.st = "err" -> "rejected"
             [] OTHER -> "diverged"
  /\ len' = IF res'.st = "ok" THEN res'.len ELSE len
  /\ UNCHANGED <<buf, dec, it, hist, args>>

\* what an asserted read leaves of an iterator
Panicked(x, r) ==
  [x EXCEPT !.st = IF r.why = "diverge" THEN "hang" ELSE "panic"]

\* Message::questions
QuestionsNew(b, l) ==
  [kind |-> "questions", count |-> QuestionCount(b), cur |-> 0,
   i |-> HEADER_SIZE, st |-> "iter", item |-> <<>>]

\* Message::answers
AnswersAt(b, r) ==
  IF r.ok
  THEN [kind |-> "answers", count |-> AnswerCount(b), cur |-> 0,
        i |-> r.i, st |-> "iter", item |-> <<>>]
  ELSE Panicked([kind |-> "answers", count |-> AnswerCount(b), cur |-> 0,
                 i |-> r.i, st |-> "iter", item |-> <<>>], r)

AnswersNew(b, l) == AnswersAt(b, QuestionsEnd(b, l))

\* Questions::next over the iterator's buffer b
QuestionYield(b, x, r) ==
  IF ~r.ok THEN Panicked(x, r)
  ELSE [x EXCEPT
          !.item = [name  |-> x.i,
                    kind  |-> QueryKindFrom(U16(At(b, r.i - 4), At(b, r.i - 3))),
                    class |-> QueryClassFrom(U16(At(b, r.i - 2), At(b, r.i - 1)))],
          !.cur = @ + 1,
          !.i = r.i]

QuestionsNext(b, x) ==
  IF x.cur >= x.count THEN [x EXCEPT !.st = "end", !.item = <<>>]
  ELSE QuestionYield(b, x, QuestionRead(b, x.i))

\* Answers::next over the iterator's buffer b: the asserted reads, then the
\* answer assembled from the offsets they stopped at
AnswerYield(b, x, r, kind_i, class_i, ttl_i, rdata_len_i) ==
  IF ~r.ok THEN Panicked(x, r)
  ELSE [x EXCEPT
          !.item = [name  |-> x.i,
                    kind  |-> QueryKindFrom(U16(At(b, kind_i), At(b, kind_i + 1))),
                    class |-> QueryClassFrom(U16(At(b, class_i), At(b, class_i + 1))),
                    ttl   |-> U32(At(b, ttl_i), At(b, ttl_i + 1),
                                  At(b, ttl_i + 2), At(b, ttl_i + 3)),
                    rdata |-> Slice(b, rdata_len_i + 2,
                                    rdata_len_i + 2
                                      + U16(At(b, rdata_len_i), At(b, rdata_len_i + 1)))],
          !.cur = @ + 1,
          !.i = r.i]

AnswerAfterTtl(b, x, n, k, c, t) ==
  AnswerYield(b, x, ThenRdata(b, t), n.i, k.i, c.i, t.i)

AnswerAfterClass(b, x, n, k, c) == AnswerAfterTtl(b, x, n, k, c, ThenTtl(b, c))

AnswerAfterKind(b, x, n, k) == AnswerAfterClass(b, x, n, k, ThenClass(b, k))

AnswerAfterName(b, x, n) == AnswerAfterKind(b, x, n, ThenKind(b, n))

AnswersNext(b, x) ==
  IF x.cur >= x.count THEN [x EXCEPT !.st = "end", !.item = <<>>]
  ELSE AnswerAfterName(b, x, NameRead(b, x.i))

RECURSIVE LabelsFrom(_, _)
\* name.labels() collected: the bytes of each label; <<"panic">> where a
\* label's slice leaves the buffer or the walk does not end
LabelsFrom(b, i) ==
  LET n == LabelsNext(b, i) IN
  IF n.hang THEN <<"panic">>
  ELSE IF ~n.some THEN <<>>
  ELSE IF n.label + 1 + LabelLen(b, n.label) > Len(b) THEN <<"panic">>
  ELSE <<LabelBytes(b, n.label)>> \o LabelsFrom(b, n.i)

RECURSIVE CollectAnswers(_, _)
\* what is left of message.answers() after x, collected: each answer with
\* the labels of its name; <<"panic">> closes the list if an assert fails
CollectAnswers(b, x) ==
  IF x.st = "end" THEN <<>>
  ELSE IF x.st # "iter" THEN <<"panic">>
  ELSE IF x.item = <<>> THEN CollectAnswers(b, AnswersNext(b, x))
  ELSE <<[x.item EXCEPT !.name = LabelsFrom(b, @)]>>
         \o CollectAnswers(b, AnswersNext(b, x))

\* message.answers().collect()
AnswersOf(b, l) == CollectAnswers(AsBytes(b, l), AnswersNew(b, l))

\* message.questions()
TakeQuestions ==
  /\ pc = "parsed"
  /\ it.st = "none"
  /\ it' = QuestionsNew(buf, len)
  /\ UNCHANGED <<buf, len, pc, dec, hist, args, res>>

\* message.answers()
TakeAnswers ==
  /\ pc = "parsed"
  /\ it.st = "none"
  /\ it' = AnswersNew(buf, len)
  /\ UNCHANGED <<buf, len, pc, dec, hist, args, res>>

\* questions.next() / answers.next()
IterNext ==
  /\ pc = "parsed"
  /\ it.st = "iter"
  /\ it' = IF it.kind = "questions"
           THEN QuestionsNext(AsBytes(buf, len), it)
           ELSE AnswersNext(AsBytes(buf, len), it)
  /\ UNCHANGED <<buf, len, pc, dec, hist, args, res>>

NextParse == ParseAct \/ TakeQuestions \/ TakeAnswers \/ IterNext

SpecParse == InitParse /\ [][NextParse]_vars

(***************************************************************************)
(* Building a message (message.rs).  An append works on w = [buf, len, i,  *)
(* st, found]: the message, the insertion cursor i, st "ok", "panic" or    *)
(* "hang", and whether add_pointer wrote a pointer.                        *)
(***************************************************************************)
\* an insert that copies the bytes in without shifting buf[i..len)
InsertWithoutShift(w, bytes) ==
  IF w.st # "ok" THEN w
  ELSE IF Len(bytes) > 0 /\ w.len + Len(bytes) > Len(w.buf)
  THEN [w EXCEPT !.st = "panic"]
  ELSE [w EXCEPT
          !.buf = Slice(w.buf, 0, w.i) \o bytes
                    \o Slice(w.buf, w.i + Len(bytes), Len(w.buf)),
          !.len = @ + Len(bytes),
          !.i = @ + Len(bytes)]

\* Message::insert: shift buf[i..len) right and copy the bytes in; an index
\* past the buffer's capacity panics
Insert(w, bytes) ==
  IF w.st # "ok" THEN w
  ELSE IF Len(bytes) > 0 /\ w.len + Len(bytes) > Len(w.buf)
  THEN [w EXCEPT !.st = "panic"]
  ELSE [w EXCEPT
          !.buf = Slice(w.buf, 0, w.i) \o bytes \o Slice(w.buf, w.i, w.len)
                    \o Slice(w.buf, w.len + Len(bytes), Len(w.buf)),
          !.len = @ + Len(bytes),
          !.i = @ + Len(bytes)]

RECURSIVE AddPointerTry(_, _, _)
\* the loop of Message::add_pointer; x is what self.questions() yielded
AddPointerTry(w, name, x) ==
  CASE x.st = "end" -> [w EXCEPT !.found = FALSE]
    [] x.st \in {"panic", "hang"} -> [w EXCEPT !.st = x.st]
    [] OTHER ->
         IF CreatePointer([buf |-> AsBytes(w.buf, w.len), start |-> x.item.name],
                          name).some
         THEN [Insert(w, CreatePointer([buf |-> AsBytes(w.buf, w.len),
                                        start |-> x.item.name], name).ptr)
                 EXCEPT !.found = TRUE]
         ELSE AddPointerTry(w, name, QuestionsNext(AsBytes(w.buf, w.len), x))

\* an add_pointer that finds no question to point at
AddPointerNever(w, name) == [w EXCEPT !.found = FALSE]

\* Message::add_pointer
AddPointer(w, name) ==
  IF w.st # "ok" THEN w
  ELSE AddPointerTry(w, name, QuestionsNext(AsBytes(w.buf, w.len),
                                            QuestionsNew(w.buf, w.len)))

\* the literal label add_name inserts: its length byte, then its bytes
AddLabel(w, name, sp) ==
  Insert(Insert(w, <<LabelLen(name.buf, sp.label)>>), LabelBytes(name.buf, sp.label))

RECURSIVE AddNameLoop(_, _)
RECURSIVE AddNameRest(_, _)
\* the loop of Message::add_name with name_rest = name
AddNameLoop(w, name) ==
  IF w.st # "ok" THEN w
  ELSE IF Split(name).panic THEN [w EXCEPT !.st = "panic"]
  ELSE IF Split(name).rest
  THEN AddNameRest(AddPointer(AddLabel(w, name, Split(name)), Split(name).name),
                   Split(name).name)
  ELSE Insert(AddLabel(w, name, Split(name)), <<0>>)

\* after add_pointer(i, &rest): return, or go round the loop with the rest
AddNameRest(p, rest) ==
  IF p.st # "ok" \/ p.found THEN p ELSE AddNameLoop(p, rest)

\* the literal labels of add_name when no pointer stands for the whole name
AddNameLiteral(p, name) ==
  IF p.st # "ok" \/ p.found THEN p ELSE AddNameLoop(p, name)

\* Message::add_name
AddName(w, name) == AddNameLiteral(AddPointer(w, name), name)

\* Message::add_kind
AddKind(w, kind) == Insert(w, U16Bytes(QueryKindU16(kind)))

\* Message::add_class
AddClass(w, class) == Insert(w, U16Bytes(QueryClassU16(class)))

\* Message::add_ttl
AddTtl(w, ttl) == Insert(w, U32Bytes(ttl))

\* Message::add_rdata
AddRdata(w, data) == Insert(Insert(w, U16Bytes(Len(data) % 65536)), data)

\* the cursor an append starts from: the asserted questions_end / answers_end
CursorAt(b, l, r) ==
  [buf |-> b, len |-> l, i |-> r.i, found |-> FALSE,
   st |-> IF r.ok THEN "ok" ELSE IF r.why = "diverge" THEN "hang" ELSE "panic"]

\* Header::set_question_count
SetQuestionCount(b, n) == [b EXCEPT ![5] = n \div 256, ![6] = n % 256]

\* Header::set_answer_count
SetAnswerCount(b, n) == [b EXCEPT ![7] = n \div 256, ![8] = n % 256]

\* header.set_question_count(header.question_count() + 1)
CountQuestion(w) ==
  IF w.st # "ok" THEN w
  ELSE [w EXCEPT !.buf = SetQuestionCount(w.buf, (QuestionCount(w.buf) + 1) % 65536)]

\* header.set_answer_count(header.answer_count() + 1)
CountAnswer(w) ==
  IF w.st # "ok" THEN w
  ELSE [w EXCEPT !.buf = SetAnswerCount(w.buf, (AnswerCount(w.buf) + 1) % 65536)]

\* Message::add_question of question q on the message (b, l)
AddQuestion(b, l, q) ==
  CountQuestion(AddClass(AddKind(AddName(CursorAt(b, l, QuestionsEnd(b, l)), q.name),
                                 q.kind), q.class))

\* Message::add_answer of answer a on the message (b, l)
AddAnswer(b, l, a) ==
  CountAnswer(AddRdata(AddTtl(AddClass(AddKind(
    AddName(CursorAt(b, l, AnswersEnd(b, l)), a.name), a.kind), a.class), a.ttl), a.rdata))

(***************************************************************************)
(* A message created by Message::builder(buf).header(h).build(), appended  *)
(* to by add_question and add_answer, its counts set by hand at most once, *)
(* and its bytes handed to Message::parse.                                 *)
(***************************************************************************)
\* the most appends in one behaviour
MaxOps == 3

\* the capacity of the caller's buffer
BufLen == 540

\* what the caller's buffer holds before the builder zeroes its header
BufferFill == {0, 255}

\* the ids HeaderBuilder::id installs
HeaderIds == {0, 7932}

\* the counts the manual setters are called with
SetCounts == 0..3

\* a question of another parsed message whose name is "b" and a pointer to
\* that message's first name "a"
OtherMessage ==
  HeaderBytes(2, 0) \o <<1, 97, 0, 0, 1, 0, 1>> \o <<1, 98, 192, 12, 0, 1, 0, 1>>

\* the names of the questions appended: the root, "a", "A", "b.a", and "b.a"
\* as the second question of OtherMessage holds it
BuildNames ==
  {NameFromBytes(<<0>>), NameFromBytes(<<1, 97, 0>>), NameFromBytes(<<1, 65, 0>>),
   NameFromBytes(<<1, 98, 1, 97, 0>>), [buf |-> OtherMessage, start |-> 19]}

BuildQuestions == {[name |-> n, kind |-> "A", class |-> "IN"] : n \in BuildNames}

BuildAnswers ==
  {[name |-> NameFromBytes(<<0>>), kind |-> "A", class |-> "IN",
    ttl |-> <<0, 60>>, rdata |-> <<>>],
   [name |-> NameFromBytes(<<1, 97, 0>>), kind |-> "A", class |-> "IN",
    ttl |-> <<0, 60>>, rdata |-> <<>>],
   [name |-> NameFromBytes(<<1, 65, 0>>), kind |-> "AAAA", class |-> "IN",
    ttl |-> <<1, 0>>, rdata |-> <<7, 7>>],
   [name |-> NameFromBytes(<<1, 98, 1, 97, 0>>), kind |-> "A", class |-> "IN",
    ttl |-> <<0, 60>>, rdata |-> <<7, 7>>],
   [name |-> NameFromBytes(<<1, 99, 1, 97, 0>>), kind |-> "A", class |-> "IN",
    ttl |-> <<0, 60>>, rdata |-> <<0, 0, 0, 0, 0>>],
   [name |-> NameFromBytes(<<1, 97, 0>>), kind |-> "TXT", class |-> "IN",
    ttl |-> <<0, 60>>, rdata |-> [k \in 1..250 |-> 0]]}

NoLast == [op |-> "none"]

\* Message::builder(buf).header(h).build() with h from HeaderBuilder
InitBuild ==
  /\ \E f \in BufferFill, id \in HeaderIds :
       buf = U16Bytes(id) \o <<1, 0>> \o U16Bytes(0) \o U16Bytes(0) \o <<0, 0, 0, 0>>
               \o [k \in 1..(BufLen - HEADER_SIZE) |-> f]
  /\ len = HEADER_SIZE
  /\ pc = "build"
  /\ dec = ReadStart(0)
  /\ it = NoIt
  /\ hist = [nq |-> 0, na |-> 0, sets |-> 0, last |-> NoLast]
  /\ args = <<>>
  /\ res = "none"

\* what an append leaves: the grown message and the record of the call, or
\* the abort of a panic
Appended(w, n, op, nm) ==
  IF w.st = "ok"
  THEN /\ buf' = w.buf
       /\ len' = w.len
       /\ pc' = "build"
       /\ hist' = [hist EXCEPT
                     !.nq = IF op = "question" THEN @ + 1 ELSE @,
                     !.na = IF op = "answer" THEN @ + 1 ELSE @,
                     !.last = [op |-> op, name |-> nm, found |-> n.found,
                               at |-> n.i - (n.len - len), end |-> n.i,
                               buf |-> buf, len |-> len]]
  ELSE /\ pc' = IF w.st = "hang" THEN "hung" ELSE "aborted"
       /\ hist' = [hist EXCEPT !.last = [op |-> op, name |-> nm]]
       /\ UNCHANGED <<buf, len>>

\* message.add_question(&q)
AddQuestionAct ==
  /\ pc = "build"
  /\ hist.nq + hist.na < MaxOps
  /\ \E q \in BuildQuestions :
       /\ args' = q
       /\ Appended(AddQuestion(buf, len, q),
                   AddName(CursorAt(buf, len, QuestionsEnd(buf, len)), q.name),
                   "question", q.name)
  /\ UNCHANGED <<dec, it, res>>

\* message.add_answer(&a)
AddAnswerAct ==
  /\ pc = "build"
  /\ hist.nq + hist.na < MaxOps
  /\ \E a \in BuildAnswers :
       /\ args' = a
       /\ Appended(AddAnswer(buf, len, a),
                   AddName(CursorAt(buf, len, AnswersEnd(buf, len)), a.name),
                   "answer", a.name)
  /\ UNCHANGED <<dec, it, res>>

\* unsafe { message.header_mut().set_question_count(n) }
SetQuestionCountAct ==
  /\ pc = "build"
  /\ hist.sets = 0
  /\ \E n \in SetCounts :
       /\ args' = n
       /\ buf' = SetQuestionCount(buf, n)
  /\ hist' = [hist EXCEPT !.sets = 1]
  /\ pc' = "set"
  /\ UNCHANGED <<len, dec, it, res>>

\* unsafe { message.header_mut().set_answer_count(n) }
SetAnswerCountAct ==
  /\ pc = "build"
  /\ hist.sets = 0
  /\ \E n \in SetCounts :
       /\ args' = n
       /\ buf' = SetAnswerCount(buf, n)
  /\ hist' = [hist EXCEPT !.sets = 1]
  /\ pc' = "set"
  /\ UNCHANGED <<len, dec, it, res>>

\* Message::parse(&mut message.as_bytes().to_vec())
ParseBuilt ==
  /\ pc \in {"build", "set"}
  /\ res' = Parse(AsBytes(buf, len))
  /\ pc' = "reparsed"
  /\ UNCHANGED <<buf, len, dec, it, hist, args>>

NextBuild ==
  AddQuestionAct \/ AddAnswerAct \/ SetQuestionCountAct \/ SetAnswerCountAct
    \/ ParseBuilt

SpecBuild == InitBuild /\ [][NextBuild]_vars

(***************************************************************************)
(* Comparing the name of a question of a parsed message with a string,     *)
(* and rendering it.                                                       *)
(***************************************************************************)
\* the most labels written in a generated name
MaxLabels == 2

\* the longest string compared
MaxStr == 3

\* labels as they stand on the wire: "a", "A", ".", "aA", and "a" under a
\* length byte whose top bits are 01
EqLabels == {<<1, 97>>, <<1, 65>>, <<1, 46>>, <<2, 97, 65>>, <<65, 97>>}

\* the name field of the first question
EqNameFields == {Flatten(ls) \o <<0>> : ls \in SeqUpTo(EqLabels, MaxLabels)}

\* the name field of a second question: the first name, or "A" before it
EqPointerFields == {<<192, 12>>, <<1, 65, 192, 12>>}

\* the strings compared: over 'A', 'a', '.', '-'
EqStrings == SeqUpTo({65, 97, 46, 45}, MaxStr)

EqMessages ==
  {HeaderBytes(1, 0) \o f \o <<0, 1, 0, 1>> : f \in EqNameFields}
  \cup {HeaderBytes(2, 0) \o f \o <<0, 1, 0, 1>> \o g \o <<0, 1, 0, 1>> :
          f \in EqNameFields, g \in EqPointerFields}

\* a buffer that Message::parse accepted, and a string
InitEq ==
  /\ buf \in {m \in EqMessages : Parse(m).st = "ok"}
  /\ len = Parse(buf).len
  /\ pc = "parsed"
  /\ dec = ReadStart(0)
  /\ it = NoIt
  /\ hist = NoHist
  /\ args \in EqStrings
  /\ res = "none"

\* the name of the k-th question that message.questions() yields
QuestionName(b, l, k) ==
  [buf |-> AsBytes(b, l), start |-> ReadQuestions(AsBytes(b, l), HEADER_SIZE, k - 1).i]

\* question.name() == s
CompareAct ==
  /\ pc = "parsed"
  /\ \E k \in 1..QuestionCount(buf) :
       res' = [op |-> "eq", name |-> QuestionName(buf, len, k),
               val |-> NameEq(QuestionName(buf, len, k), args)]
  /\ pc' = "compared"
  /\ UNCHANGED <<buf, len, dec, it, hist, args>>

\* question.name().to_string()
DisplayAct ==
  /\ pc = "parsed"
  /\ \E k \in 1..QuestionCount(buf) :
       res' = [op |-> "show", name |-> QuestionName(buf, len, k),
               val |-> Display(QuestionName(buf, len, k))]
  /\ pc' = "shown"
  /\ UNCHANGED <<buf, len, dec, it, hist, args>>

NextEq == CompareAct \/ DisplayAct

SpecEq == InitEq /\ [][NextEq]_vars

(***************************************************************************)
(* existing.create_pointer(target) on two names.                           *)
(***************************************************************************)
\* the most labels of a generated literal name
MaxPtrLabels == 3

\* the labels "a", "A", "b"
PtrLabels == {<<1, 97>>, <<1, 65>>, <<1, 98>>}

\* names written out label by label
LiteralNames ==
  {NameFromBytes(Flatten(ls) \o <<0>>) : ls \in SeqUpTo(PtrLabels, MaxPtrLabels)}

\* names ending in a pointer to an earlier name of their buffer: "b.a",
\* "a" as a pointer alone, "A.b.a", and "b.a.b" pointing into "a.b"
CompressedNames ==
  {[buf |-> <<1, 97, 0, 1, 98, 192, 0>>, start |-> 3],
   [buf |-> <<1, 98, 1, 97, 0, 192, 2>>, start |-> 5],
   [buf |-> <<1, 98, 1, 97, 0, 1, 65, 192, 0>>, start |-> 5],
   [buf |-> <<1, 97, 1, 98, 0, 1, 98, 192, 0>>, start |-> 5]}

InitPtr ==
  /\ \E existing \in LiteralNames \cup CompressedNames,
        target \in LiteralNames \cup CompressedNames :
       /\ buf = existing.buf
       /\ dec = ReadStart(existing.start)
       /\ args = target
  /\ len = Len(buf)
  /\ pc = "names"
  /\ it = NoIt
  /\ hist = NoHist
  /\ res = "none"

\* existing.create_pointer(&target)
CreatePointerAct ==
  /\ pc = "names"
  /\ res' = CreatePointer([buf |-> buf, start |-> dec.i], args)
  /\ pc' = "pointed"
  /\ UNCHANGED <<buf, len, dec, it, hist, args>>

NextPtr == CreatePointerAct

SpecPtr == InitPtr /\ [][NextPtr]_vars

(***************************************************************************)
(* Parsing buffers of every size around the two limits of Message::parse.  *)
(***************************************************************************)
\* the longest buffer handed to parse
MaxSize == 514

\* a buffer of n bytes: all zero (a header declaring no record); or a header
\* declaring one answer with the root name whose rdata takes the rest
SizedInputs(n) ==
  {[k \in 1..n |-> 0]}
  \cup (IF n >= HEADER_SIZE + 11
        THEN {HeaderBytes(0, 1) \o <<0, 0, 1, 0, 1, 0, 0, 0, 60>>
                \o U16Bytes(n - HEADER_SIZE - 11)
                \o [k \in 1..(n - HEADER_SIZE - 11) |-> 7]}
        ELSE {SubSeq(HeaderBytes(0, 1) \o <<0, 0, 1, 0, 1, 0, 0, 0, 60, 0, 0>>, 1, n)})

InitSize ==
  /\ \E n \in 0..MaxSize : buf \in SizedInputs(n)
  /\ len = Len(buf)
  /\ pc = "input"
  /\ dec = ReadStart(0)
  /\ it = NoIt
  /\ hist = [nq |-> 0, na |-> 0, input |-> buf]
  /\ args = <<>>
  /\ res = "none"

NextSize == ParseAct

SpecSize == InitSize /\ [][NextSize]_vars

(***************************************************************************)
(* Appending a question to a message that Message::parse returned: a       *)
(* received response in a buffer with room left behind it.                 *)
(***************************************************************************)
\* the most records of a received response
MaxRecords == 2

\* the room behind the received bytes
SpareLen == 12

\* the question of a received response: "b"
SpliceQuestions == {<<1, 98, 0, 0, 1, 0, 1>>}

\* the answers of a received response: named "a", named by a pointer to
\* offset 12 (the first name of the message), with rdata none or <<7, 7>>
SpliceAnswers ==
  {nm \o <<0, 1, 0, 1, 0, 0, 0, 60>> \o U16Bytes(Len(rd)) \o rd :
     nm \in {<<1, 97, 0>>, <<192, 12>>}, rd \in ParseRdata}

SpliceMessages ==
  {HeaderBytes(Len(qs), Len(as)) \o Flatten(qs) \o Flatten(as)
     \o [k \in 1..SpareLen |-> 0] :
     qs \in SeqUpTo(SpliceQuestions, 1),
     as \in SeqUpTo(SpliceAnswers, MaxRecords) \ {<<>>}}

\* Message::parse(buffer) returned the message
InitSplice ==
  /\ buf \in {m \in SpliceMessages :
                /\ QuestionCount(m) + AnswerCount(m) <= MaxRecords
                /\ Parse(m).st = "ok"}
  /\ len = Parse(buf).len
  /\ pc = "build"
  /\ dec = ReadStart(0)
  /\ it = NoIt
  /\ hist = [nq |-> QuestionCount(buf), na |-> AnswerCount(buf), sets |-> 0,
             last |-> NoLast]
  /\ args = <<>>
  /\ res = "none"

NextSplice == AddQuestionAct

SpecSplice == InitSplice /\ [][NextSplice]_vars

(***************************************************************************)
(* The header setters (header.rs).  A header is the first 12 bytes of a    *)
(* buffer: id at offsets 0..1, flags[0] at 2, flags[1] at 3, then the four *)
(* counts.                                                                 *)
(***************************************************************************)
RECURSIVE BitAnd(_, _)
\* x & y
BitAnd(x, y) ==
  IF x = 0 \/ y = 0 THEN 0
  ELSE (x % 2) * (y % 2) + 2 * BitAnd(x \div 2, y \div 2)

RECURSIVE BitOr(_, _)
\* x | y
BitOr(x, y) ==
  IF x = 0 THEN y
  ELSE IF y = 0 THEN x
  ELSE (IF x % 2 = 1 \/ y % 2 = 1 THEN 1 ELSE 0) + 2 * BitOr(x \div 2, y \div 2)

\* Header::set_id
SetId(b, id) == [b EXCEPT ![1] = id \div 256, ![2] = id % 256]

\* Header::set_kind
SetKind(b, kind) ==
  IF kind = "Query"
  THEN [b EXCEPT ![3] = BitAnd(@, 127)]
  ELSE [b EXCEPT ![3] = BitOr(@, 128)]

\* the match of set_opcode; an OpCode is [tag, n], n being the u8 carried by
\* Reserved
OpCodeBits(opcode) ==
  CASE opcode.tag = "Query" -> 0
    [] opcode.tag = "InverseQuery" -> 1
    [] opcode.tag = "Status" -> 2
    [] opcode.tag = "Notify" -> 4
    [] opcode.tag = "Update" -> 5
    [] OTHER -> opcode.n

\* Header::set_opcode; << 3 of a u8 drops the bits shifted out
SetOpcode(b, opcode) ==
  [b EXCEPT ![3] = BitOr(BitAnd(@, 135), (OpCodeBits(opcode) * 8) % 256)]

\* Header::set_recursion_desired
SetRecursionDesired(b, recursion_desired) ==
  IF recursion_desired
  THEN [b EXCEPT ![3] = BitOr(@, 1)]
  ELSE [b EXCEPT ![3] = BitAnd(@, 254)]

\* Header::set_recursion_available
SetRecursionAvailable(b, recursion_available) ==
  IF recursion_available
  THEN [b EXCEPT ![4] = BitOr(@, 128)]
  ELSE [b EXCEPT ![4] = BitAnd(@, 127)]

\* From<ResponseCode> for u16; a ResponseCode is [tag, n], n being the u16
\* carried by Reserved
ResponseCodeU16(r) ==
  CASE r.tag = "NoError" -> 0
    [] r.tag = "FormatError" -> 1
    [] r.tag = "ServerFailure" -> 2
    [] r.tag = "NonExistentDomain" -> 3
    [] r.tag = "NotImplemented" -> 4
    [] r.tag = "Refused" -> 5
    [] r.tag = "ExistentDomain" -> 6
    [] r.tag = "ExistentRrSet" -> 7
    [] r.tag = "NonExistentRrSet" -> 8
    [] r.tag = "NotAuthoritative" -> 9
    [] r.tag = "NotZone" -> 10
    [] r.tag = "BadOptVersionOrBadSignature" -> 16
    [] r.tag = "BadKey" -> 17
    [] r.tag = "BadTime" -> 18
    [] r.tag = "BadMode" -> 19
    [] r.tag = "BadName" -> 20
    [] r.tag = "BadAlg" -> 21
    [] OTHER -> r.n

\* Header::set_response_code; "as u8" keeps the low 8 bits
SetResponseCode(b, response_code) ==
  [b EXCEPT ![4] = BitOr(BitAnd(@, 240), ResponseCodeU16(response_code) % 256)]

MaxSets == 2

\* every variant of OpCode, Reserved with values inside and outside 4 bits
OpCodes ==
  {[tag |-> t, n |-> 0] :
     t \in {"Query", "InverseQuery", "Status", "Notify", "Update"}}
  \cup {[tag |-> "Reserved", n |-> n] : n \in {3, 15, 16, 32, 255}}

\* every variant of ResponseCode, Reserved with unassigned values
ResponseCodes ==
  {[tag |-> t, n |-> 0] :
     t \in {"NoError", "FormatError", "ServerFailure", "NonExistentDomain",
            "NotImplemented", "Refused", "ExistentDomain", "ExistentRrSet",
            "NonExistentRrSet", "NotAuthoritative", "NotZone",
            "BadOptVersionOrBadSignature", "BadKey", "BadTime", "BadMode",
            "BadName", "BadAlg"}}
  \cup {[tag |-> "Reserved", n |-> n] : n \in {11, 15, 22, 128, 256, 65535}}

SetIds == {0, 7932, 65535}

\* the headers the setters are called on: every bit clear, every bit set,
\* and one with bits of each kind
SetHeaders ==
  {[k \in 1..HEADER_SIZE |-> 0], [k \in 1..HEADER_SIZE |-> 255],
   <<30, 252, 165, 90, 0, 1, 0, 2, 0, 0, 0, 0>>}

InitSet ==
  /\ buf \in SetHeaders
  /\ len = HEADER_SIZE
  /\ pc = "header"
  /\ hist = [n |-> 0, op |-> "none", prev |-> buf]
  /\ dec = ReadStart(0)
  /\ it = NoIt
  /\ args = <<>>
  /\ res = "none"

\* the call op of a setter, which makes buf into b
SetDone(op, b) ==
  /\ pc = "header"
  /\ hist.n < MaxSets
  /\ buf' = b
  /\ hist' = [n |-> hist.n + 1, op |-> op, prev |-> buf]
  /\ UNCHANGED <<len, pc, dec, it, args, res>>

SetIdAct == \E id \in SetIds : SetDone("set_id", SetId(buf, id))

SetKindAct ==
  \E kind \in {"Query", "Response"} : SetDone("set_kind", SetKind(buf, kind))

SetOpcodeAct ==
  \E opcode \in OpCodes : SetDone("set_opcode", SetOpcode(buf, opcode))

SetRecursionDesiredAct ==
  \E rd \in BOOLEAN :
    SetDone("set_recursion_desired", SetRecursionDesired(buf, rd))

SetRecursionAvailableAct ==
  \E ra \in BOOLEAN :
    SetDone("set_recursion_available", SetRecursionAvailable(buf, ra))

SetResponseCodeAct ==
  \E rc \in ResponseCodes :
    SetDone("set_response_code", SetResponseCode(buf, rc))

NextSet ==
  \/ SetIdAct
  \/ SetKindAct
  \/ SetOpcodeAct
  \/ SetRecursionDesiredAct
  \/ SetRecursionAvailableAct
  \/ SetResponseCodeAct

SpecSet == InitSet /\ [][NextSet]_vars

(***************************************************************************)
(* One record of every kind and class appended to a fresh message and read *)
(* back by the iterator of its section.                                    *)
(***************************************************************************)
\* the variants of QueryKind
QueryKinds ==
  {"A", "NS", "MD", "MF", "CNAME", "SOA", "MB", "MG", "MR", "NULL", "WKS",
   "PTR", "HINFO", "MINFO", "MX", "TXT", "AXFR", "MAILB", "MAILA", "ALL",
   "Reserved"}

\* the variants of QueryClass
QueryClasses == {"IN", "CS", "CH", "HS", "Reserved"}

\* Message::builder(buf).build() on a buffer with room for one record named
\* "a", and the record to append
InitKind ==
  /\ buf = HeaderBytes(0, 0) \o [k \in 1..13 |-> 0]
  /\ len = HEADER_SIZE
  /\ \E op \in {"add_question", "add_answer"}, k \in QueryKinds,
        c \in QueryClasses :
       args = [op |-> op, name |-> NameFromBytes(<<1, 97, 0>>), kind |-> k,
               class |-> c, ttl |-> <<0, 60>>, rdata |-> <<>>]
  /\ pc = "build"
  /\ dec = ReadStart(0)
  /\ it = NoIt
  /\ hist = NoHist
  /\ res = "none"

\* message.add_question(&question) / message.add_answer(&answer)
AppendKindAct ==
  /\ pc = "build"
  /\ LET w == IF args.op = "add_question"
              THEN AddQuestion(buf, len, args)
              ELSE AddAnswer(buf, len, args)
     IN  /\ buf' = w.buf
         /\ len' = w.len
         /\ pc' = IF w.st = "ok" THEN "appended" ELSE "aborted"
  /\ UNCHANGED <<dec, it, hist, args, res>>

\* message.questions().next() / message.answers().next()
ReadBackAct ==
  /\ pc = "appended"
  /\ it' = IF args.op = "add_question"
           THEN QuestionsNext(AsBytes(buf, len), QuestionsNew(buf, len))
           ELSE AnswersNext(AsBytes(buf, len), AnswersNew(buf, len))
  /\ pc' = "read"
  /\ UNCHANGED <<buf, len, dec, hist, args, res>>

NextKind == AppendKindAct \/ ReadBackAct

SpecKind == InitKind /\ [][NextKind]_vars

(***************************************************************************)
(* Decoding one name in one call: names whose length bytes carry the       *)
(* reserved top bits 01 and 10, and names whose labels add up to about     *)
(* 255 bytes, written out or ending in a pointer to an earlier name.       *)
(***************************************************************************)
MaxLabelBuf == 4

\* 0x00, 0x01, and 0x40, 0x41, 0x81 with one of the two top bits set
LengthBytes == {0, 1, 64, 65, 129}

InitReserved ==
  /\ buf \in SeqUpTo(LengthBytes, MaxLabelBuf)
  /\ len = Len(buf)
  /\ args = [start |-> 0]
  /\ pc = "decode"
  /\ dec = ReadStart(0)
  /\ it = NoIt
  /\ hist = NoHist
  /\ res = "none"

\* Name::read(buf, &mut i) with i = args.start
DecodeAct ==
  /\ pc = "decode"
  /\ res' = NameRead(buf, args.start)
  /\ pc' = "decoded"
  /\ UNCHANGED <<buf, len, dec, it, hist, args>>

NextReserved == DecodeAct

SpecReserved == InitReserved /\ [][NextReserved]_vars

MaxHeadLabels == 4

\* the label lengths of the long names
LongLens == {1, 2, 63}

\* the lengths of the labels of the earlier name a long name may end in
LongTails == {<<>>, <<63>>, <<63, 63, 63>>}

\* a label of n bytes "a" behind its length byte
LabelOfLen(n) == <<n>> \o [k \in 1..n |-> 97]

RECURSIVE LabelsOfLens(_)
LabelsOfLens(ls) ==
  IF ls = <<>> THEN <<>> ELSE LabelOfLen(Head(ls)) \o LabelsOfLens(Tail(ls))

\* the offsets at which the labels of lengths ls start, the first at i
RECURSIVE StartsOfLens(_, _)
StartsOfLens(ls, i) ==
  IF ls = <<>> THEN {} ELSE {i} \cup StartsOfLens(Tail(ls), i + 1 + Head(ls))

\* a name at 0 that is a pointer into a cycle of two labels: the label of 63
\* bytes at 6 ends in a pointer to the label at 2, which ends in a pointer
\* to 6
CyclicName ==
  PointerBytes(6) \o LabelOfLen(1) \o PointerBytes(6)
    \o LabelOfLen(63) \o PointerBytes(2)

\* a buffer and the offset of the name to decode in it
LongInputs ==
  {[buf |-> CyclicName, start |-> 0]}
  \cup
  {[buf |-> LabelsOfLens(h) \o <<0>>, start |-> 0] :
     h \in SeqUpTo(LongLens, MaxHeadLabels + 2)}
  \cup
  UNION {{[buf   |-> LabelsOfLens(t) \o <<0>> \o LabelsOfLens(h)
                       \o PointerBytes(p),
            start |-> Len(LabelsOfLens(t)) + 1] :
             h \in SeqUpTo(LongLens, MaxHeadLabels), p \in StartsOfLens(t, 0)} :
           t \in LongTails \ {<<>>}}

InitLong ==
  /\ \E x \in LongInputs :
       /\ buf = x.buf
       /\ args = [start |-> x.start]
       /\ dec = ReadStart(x.start)
  /\ len = Len(buf)
  /\ pc = "decode"
  /\ it = NoIt
  /\ hist = NoHist
  /\ res = "none"

NextLong == DecodeAct

SpecLong == InitLong /\ [][NextLong]_vars

(***************************************************************************)
(* The wire layout of RFC 1035, read without following any pointer: where  *)
(* a name field, a question and a resource record end.  -1: no layout.     *)
(***************************************************************************)
RECURSIVE WireNameEnd(_, _)
WireNameEnd(b, i) ==
  IF ~InBuf(b, i) THEN -1
  ELSE IF At(b, i) = 0 THEN i + 1
  ELSE IF At(b, i) >= 192 THEN i + 2
  ELSE IF At(b, i) >= 64 THEN -1
  ELSE WireNameEnd(b, i + 1 + At(b, i))

WireQuestionEnd(b, i) ==
  IF i < 0 \/ WireNameEnd(b, i) < 0 THEN -1 ELSE WireNameEnd(b, i) + 4

WireRdataEnd(b, j) ==
  IF j < 0 \/ j + 10 > Len(b) THEN -1
  ELSE j + 10 + U16(At(b, j + 8), At(b, j + 9))

WireAnswerEnd(b, i) == IF i < 0 THEN -1 ELSE WireRdataEnd(b, WireNameEnd(b, i))

RECURSIVE WireQuestionsEnd(_, _, _)
WireQuestionsEnd(b, i, n) ==
  IF n = 0 THEN i ELSE WireQuestionsEnd(b, WireQuestionEnd(b, i), n - 1)

RECURSIVE WireAnswersEnd(_, _, _)
WireAnswersEnd(b, i, n) ==
  IF n = 0 THEN i ELSE WireAnswersEnd(b, WireAnswerEnd(b, i), n - 1)

\* the offset just past the last declared answer
WireEnd(b) ==
  WireAnswersEnd(b, WireQuestionsEnd(b, HEADER_SIZE, QuestionCount(b)), AnswerCount(b))

RECURSIVE WireLabels(_, _, _)
\* the labels of the name at offset i, lowercased, pointers followed at
\* most fuel times
WireLabels(b, i, fuel) ==
  IF ~InBuf(b, i) \/ At(b, i) = 0 THEN <<>>
  ELSE IF At(b, i) >= 192
  THEN IF fuel = 0 \/ ~InBuf(b, i + 1) THEN <<>>
       ELSE WireLabels(b, U16(At(b, i) - 192, At(b, i + 1)), fuel - 1)
  ELSE <<[k \in 1..At(b, i) |-> ToAsciiLower(At(b, i + k))]>>
         \o WireLabels(b, i + 1 + At(b, i), fuel)

\* the labels of a Name, lowercased
NameLabels(name) == WireLabels(name.buf, name.start, Len(name.buf))

RECURSIVE WireLabelStarts(_, _)
\* the offsets of the length bytes of the labels written in the name field
\* at offset i
WireLabelStarts(b, i) ==
  IF ~InBuf(b, i) \/ At(b, i) = 0 \/ At(b, i) >= 64 THEN {}
  ELSE {i} \cup WireLabelStarts(b, i + 1 + At(b, i))

\* the offsets at which the names of the questions of message b start
QuestionNameStarts(b) ==
  {WireQuestionsEnd(b, HEADER_SIZE, k) : k \in 0..(QuestionCount(b) - 1)}

\* the name starts of the questions whose full name is the given name
FullMatches(b, name) ==
  {o \in QuestionNameStarts(b) : WireLabels(b, o, Len(b)) = NameLabels(name)}

\* the label offsets in the questions from which the labels are the name's
SuffixMatches(b, name) ==
  {o \in UNION {WireLabelStarts(b, q) : q \in QuestionNameStarts(b)} :
     WireLabels(b, o, Len(b)) = NameLabels(name)}

SetMin(S) == CHOOSE x \in S : \A y \in S : x <= y

\* the bytes the last append wrote for the name
WrittenName == Slice(buf, hist.last.at, hist.last.end)

\* the offset held by a 2-byte pointer
PointerOffset(p) == U16(p[1] % 64, p[2])

RECURSIVE DecodedLabels(_, _, _)
\* the labels Name::read steps over from offset i: each the bytes counted
\* by the low six bits of its length byte; pointers followed at most fuel
\* times
DecodedLabels(b, i, fuel) ==
  IF ~InBuf(b, i) \/ At(b, i) = 0 THEN <<>>
  ELSE IF At(b, i) >= 192
  THEN IF fuel = 0 \/ ~InBuf(b, i + 1) THEN <<>>
       ELSE DecodedLabels(b, U16(At(b, i) - 192, At(b, i + 1)), fuel - 1)
  ELSE <<Slice(b, i + 1, i + 1 + (At(b, i) % 64))>>
         \o DecodedLabels(b, i + 1 + (At(b, i) % 64), fuel)

RECURSIVE Dotted(_)
\* labels joined by single '.' separators
Dotted(labels) ==
  IF labels = <<>> THEN <<>>
  ELSE IF Len(labels) = 1 THEN Head(labels)
  ELSE Head(labels) \o <<46>> \o Dotted(Tail(labels))

\* the dotted form of a Name
DottedName(name) == Dotted(DecodedLabels(name.buf, name.start, Len(name.buf)))

ToAsciiUpper(c) == IF c >= 97 /\ c <= 122 THEN c - 32 ELSE c

\* a string with every '.' replaced by '-'
Dashed(str) == [k \in 1..Len(str) |-> IF str[k] = 46 THEN 45 ELSE str[k]]

RECURSIVE PlainFrom(_, _, _)
\* no length byte on the way from offset i has top bits 01 or 10
PlainFrom(b, i, fuel) ==
  IF ~InBuf(b, i) \/ At(b, i) = 0 THEN TRUE
  ELSE IF At(b, i) >= 192
  THEN IF fuel = 0 \/ ~InBuf(b, i + 1) THEN TRUE
       ELSE PlainFrom(b, U16(At(b, i) - 192, At(b, i + 1)), fuel - 1)
  ELSE At(b, i) < 64 /\ PlainFrom(b, i + 1 + At(b, i), fuel)

\* a name whose labels all stand under a length byte of 1..63
PlainLengths(name) == PlainFrom(name.buf, name.start, Len(name.buf))

RECURSIVE LabelAt(_, _, _)
\* where the label read at offset i is written: i, or the end of the
\* chain of pointers standing at i
LabelAt(b, i, fuel) ==
  IF InBuf(b, i) /\ At(b, i) >= 192 /\ InBuf(b, i + 1) /\ fuel > 0
  THEN LabelAt(b, U16(At(b, i) - 192, At(b, i + 1)), fuel - 1)
  ELSE i

RECURSIVE LabelBoundaries(_, _, _)
\* the label boundaries of the name at offset i: i itself and the offset
\* after each label but the last, each with labels remaining.  Where a
\* pointer stands at a boundary, the boundary is the offset of the pointer.
LabelBoundaries(b, i, fuel) ==
  IF WireLabels(b, i, Len(b)) = <<>> \/ fuel = 0 THEN {}
  ELSE {i} \cup LabelBoundaries(b, LabelAt(b, i, Len(b)) + 1
                                      + At(b, LabelAt(b, i, Len(b))), fuel - 1)

\* the boundaries of existing from which the labels are the target's
MatchingBoundaries(existing, target) ==
  {o \in LabelBoundaries(existing.buf, existing.start, Len(existing.buf)) :
     WireLabels(existing.buf, o, Len(existing.buf)) = NameLabels(target)}

\* the label offsets in the questions of b from which the labels, lowercased,
\* are the given ones
LabelMatches(b, lowered) ==
  {o \in UNION {WireLabelStarts(b, q) : q \in QuestionNameStarts(b)} :
     WireLabels(b, o, Len(b)) = lowered}

\* the heads of the labels whose remaining labels, at least one, stand in a
\* question of b
CompressibleHeads(b, labels) ==
  {h \in 0..(Len(labels) - 1) :
     LabelMatches(b, [k \in 1..(Len(labels) - h) |->
                        [j \in 1..Len(labels[h + k]) |->
                           ToAsciiLower(labels[h + k][j])]]) # {}}

\* labels written out: each its length byte, then its bytes
LiteralLabels(labels) == Flatten([k \in 1..Len(labels) |-> <<Len(labels[k])>> \o labels[k]])

\* the name as C13 describes it written into message b
CompressedName(b, labels) ==
  IF CompressibleHeads(b, labels) = {} THEN LiteralLabels(labels) \o <<0>>
  ELSE LET h == SetMin(CompressibleHeads(b, labels)) IN
       LiteralLabels(SubSeq(labels, 1, h))
         \o PointerBytes(SetMin(LabelMatches(b,
              [k \in 1..(Len(labels) - h) |->
                 [j \in 1..Len(labels[h + k]) |-> ToAsciiLower(labels[h + k][j])]])))

\* labels with every letter in lower case
LowerLabels(labels) ==
  [k \in 1..Len(labels) |-> [j \in 1..Len(labels[k]) |-> ToAsciiLower(labels[k][j])]]

\* the header b with the bits of the field of setter op cleared: id (bytes
\* 0..1), QR (bit 7 of byte 2), Opcode (bits 6..3), RD (bit 0), RA (bit 7
\* of byte 3), RCODE (bits 3..0)
OtherBits(b, op) ==
  CASE op = "set_id" -> [b EXCEPT ![1] = 0, ![2] = 0]
    [] op = "set_kind" -> [b EXCEPT ![3] = @ % 128]
    [] op = "set_opcode" -> [b EXCEPT ![3] = ((@ \div 128) * 128) + (@ % 8)]
    [] op = "set_recursion_desired" -> [b EXCEPT ![3] = (@ \div 2) * 2]
    [] op = "set_recursion_available" -> [b EXCEPT ![4] = @ % 128]
    [] op = "set_response_code" -> [b EXCEPT ![4] = (@ \div 16) * 16]
    [] OTHER -> b

RECURSIVE LabelLengthSum(_, _, _)
\* the sum of the label lengths of the name at offset i, pointers followed
\* at most fuel times; a length is the low six bits of a length byte
LabelLengthSum(b, i, fuel) ==
  IF ~InBuf(b, i) \/ (At(b, i) % 64 = 0 /\ At(b, i) < 192) THEN 0
  ELSE IF At(b, i) >= 192
  THEN IF fuel = 0 \/ ~InBuf(b, i + 1) THEN 0
       ELSE LabelLengthSum(b, U16(At(b, i) - 192, At(b, i + 1)), fuel - 1)
  ELSE (At(b, i) % 64) + LabelLengthSum(b, i + 1 + (At(b, i) % 64), fuel)

\* the length of a name written as literal labels and the root
LiteralLen(labels) ==
  IF labels = <<>> THEN 1
  ELSE 1 + Len(labels) + Len(Flatten(labels))

(***************************************************************************)
(* C1: Name::read terminates for every buffer and every start offset: it   *)
(* returns true or false after finitely many passes of read_rec, also when *)
(* the compression pointers form a cycle that holds no label.              *)
(***************************************************************************)
C1_ReadTerminates == <>(dec.st # "run")

(***************************************************************************)
(* C2: in every successful decode each followed compression pointer        *)
(* targets an offset strictly below every offset visited before it, so a   *)
(* name with a forward pointer is never accepted.                          *)
(***************************************************************************)
C2_FollowedPointersGoBackward == (pc = "read" /\ dec.st = "ok") => ~dec.fwd

(***************************************************************************)
(* C3: for every buffer Message::parse accepts, len() is the offset just   *)
(* past the last declared answer, is at most the buffer length, and        *)
(* as_bytes() is the input truncated to that length, byte for byte.        *)
(***************************************************************************)
C3_ParsedLengthAndBytes ==
  (pc = "parsed" /\ it.st = "none") =>
    /\ len = WireEnd(hist.input)
    /\ len >= HEADER_SIZE /\ len <= Len(hist.input)
    /\ AsBytes(buf, len) = Slice(hist.input, 0, len)

\* an accepted buffer with a question, an answer with rdata and a trailing byte
C3_Witness ==
  /\ pc = "parsed" /\ it.st = "none"
  /\ QuestionCount(buf) = 1 /\ AnswerCount(buf) = 1
  /\ len < Len(buf)
  /\ len > HEADER_SIZE + 5 + 11

(***************************************************************************)
(* C4: on every accepted buffer questions() yields question_count          *)
(* questions and answers() yields answer_count answers, then None, with    *)
(* no failed assertion, although they decode over as_bytes().              *)
(***************************************************************************)
C4_IteratorsYieldEveryRecord ==
  pc = "parsed" =>
    /\ it.st \notin {"panic", "hang"}
    /\ it.st = "end" =>
         it.cur = (IF it.kind = "questions" THEN QuestionCount(buf) ELSE AnswerCount(buf))

(***************************************************************************)
(* C6: when a declared record's field runs past the end of the buffer,     *)
(* parse fails with MessageTooShort and returns no message: every buffer   *)
(* cut short of the logical length parse computes for it is rejected so.   *)
(***************************************************************************)
C6_TruncatedIsTooShort ==
  (pc = "parsed" /\ it.st = "none") =>
    \A c \in 0..(len - 1) :
      Parse(Slice(hist.input, 0, c)) = [st |-> "err", err |-> "MessageTooShort", len |-> 0]

\* an accepted buffer declaring one answer with rdata: its cuts include the
\* one inside the rdata span
C6_Witness ==
  /\ pc = "parsed" /\ it.st = "none"
  /\ AnswerCount(buf) = 1
  /\ len = WireEnd(buf)
  /\ U16(At(buf, len - 4), At(buf, len - 3)) = 2
  /\ Parse(Slice(buf, 0, len - 1)).err = "MessageTooShort"


C7_PointerToThatQuestion ==
  (pc = "build" /\ hist.last.op # "none"
     /\ FullMatches(hist.last.buf, hist.last.name) # {}) =>
    /\ Len(WrittenName) = 2
    /\ WrittenName[1] >= PTR_MASK
    /\ PointerOffset(WrittenName) \in FullMatches(hist.last.buf, hist.last.name)

(***************************************************************************)
(* C7 amended: such an append writes for the name exactly a 2-byte pointer *)
(* (top two bits set) and no literal label, shorter than the literal name; *)
(* its offset is the smallest label offset in the questions present from   *)
(* which the labels are the name's: the name start of the first question   *)
(* of that name, unless an earlier question ends with the name.            *)
(***************************************************************************)
C7_PointerToFirstMatch ==
  (pc = "build" /\ hist.last.op # "none"
     /\ FullMatches(hist.last.buf, hist.last.name) # {}) =>
    /\ Len(WrittenName) = 2
    /\ WrittenName[1] >= PTR_MASK
    /\ Len(WrittenName) < LiteralLen(NameLabels(hist.last.name))
    /\ SuffixMatches(hist.last.buf, hist.last.name) # {}
    /\ PointerOffset(WrittenName) = SetMin(SuffixMatches(hist.last.buf, hist.last.name))
    /\ (\A o \in SuffixMatches(hist.last.buf, hist.last.name) :
          o \in QuestionNameStarts(hist.last.buf))
         => PointerOffset(WrittenName)
              = SetMin(FullMatches(hist.last.buf, hist.last.name))

\* an answer named as a question present, written as a pointer to its name
C7_Witness ==
  /\ pc = "build"
  /\ hist.last.op = "answer"
  /\ FullMatches(hist.last.buf, hist.last.name) # {}
  /\ Len(WrittenName) = 2
  /\ PointerOffset(WrittenName) \in FullMatches(hist.last.buf, hist.last.name)

(***************************************************************************)
(* C8 as claimed: once a manual count setter has made a declared count     *)
(* disagree with the records present, Message::parse of the same bytes     *)
(* rejects the message.                                                    *)
(***************************************************************************)
C8_MismatchRejected ==
  (pc = "reparsed" /\ hist.sets = 1
     /\ (QuestionCount(buf) # hist.nq \/ AnswerCount(buf) # hist.na)) =>
    res.st = "err"

(***************************************************************************)
(* C8 amended: Message::parse of as_bytes() rejects the message when the   *)
(* setter raised answer_count above the answers present, or raised         *)
(* question_count on a message without answers: the read of the missing    *)
(* record runs past the end.  A count lowered in the same two situations   *)
(* is not detected: on a message of at most 512 bytes parse accepts, with  *)
(* a logical length below len().                                           *)
(***************************************************************************)
C8_RaisedRejectedLoweredAccepted ==
  (pc = "reparsed" /\ hist.sets = 1) =>
    /\ (AnswerCount(buf) > hist.na \/ (QuestionCount(buf) > hist.nq /\ hist.na = 0))
         => res.st = "err"
    /\ ((AnswerCount(buf) < hist.na \/ (QuestionCount(buf) < hist.nq /\ hist.na = 0))
          /\ len <= HEADER_SIZE + MAX_MESSAGE_SIZE)
         => (res.st = "ok" /\ res.len < len)

\* answer_count raised by hand on a message holding a question and an answer
C8_Witness ==
  /\ pc = "reparsed"
  /\ hist.sets = 1
  /\ hist.nq >= 1
  /\ hist.na >= 1
  /\ QuestionCount(buf) = hist.nq
  /\ AnswerCount(buf) > hist.na
  /\ res.st = "err"

(***************************************************************************)
(* C9: the name of a parsed record compares equal to a string s exactly    *)
(* when s is the name's labels joined by single '.', compared ASCII        *)
(* case-insensitively; it renders as that dotted form, equals its          *)
(* rendering in lower and in upper case, and is unequal to the rendering   *)
(* with a leading or a trailing dot added or with its dots replaced.       *)
(***************************************************************************)
C9_EqualIffDottedLabels ==
  /\ pc = "compared" =>
       (res.val = "true" <=> EqIgnoreAsciiCase(args, DottedName(res.name)))
  /\ pc = "shown" =>
       /\ res.val.st = "ok"
       /\ res.val.text = DottedName(res.name)
       /\ NameEq(res.name, res.val.text) = "true"
       /\ NameEq(res.name, [k \in 1..Len(res.val.text) |->
                              ToAsciiLower(res.val.text[k])]) = "true"
       /\ NameEq(res.name, [k \in 1..Len(res.val.text) |->
                              ToAsciiUpper(res.val.text[k])]) = "true"
       /\ NameEq(res.name, <<46>> \o res.val.text) = "false"
       /\ NameEq(res.name, res.val.text \o <<46>>) = "false"
       /\ Dashed(res.val.text) # res.val.text
            => NameEq(res.name, Dashed(res.val.text)) = "false"

\* C9 on the names whose length bytes are all 1..63: there the comparison
\* and the rendering are as claimed
C9_OnPlainLengths ==
  (pc \in {"compared", "shown"} /\ PlainLengths(res.name)) => C9_EqualIffDottedLabels

\* a compressed two-label name found equal to a string in another case
C9_PlainWitness ==
  /\ pc = "compared"
  /\ PlainLengths(res.name)
  /\ res.name.start > HEADER_SIZE
  /\ res.val = "true"
  /\ Len(args) = 3
  /\ args # DottedName(res.name)

(***************************************************************************)
(* C10: existing.create_pointer(target) returns Some 2-byte pointer, top   *)
(* two bits set and the offset in the low 14 bits, to the smallest label   *)
(* boundary of existing from which the remaining labels equal all labels   *)
(* of target ASCII case-insensitively, and None when there is no such      *)
(* boundary, as when target has more labels than existing.  A boundary is  *)
(* an offset at which the walk over existing stands before a label.        *)
(***************************************************************************)
C10_PointerToSmallestMatch ==
  pc = "pointed" =>
    LET existing == [buf |-> buf, start |-> dec.i]
        matches  == MatchingBoundaries(existing, args)
    IN
    /\ matches # {} =>
         /\ res.some
         /\ Len(res.ptr) = 2
         /\ res.ptr[1] >= PTR_MASK
         /\ PointerOffset(res.ptr) = SetMin(matches)
    /\ matches = {} => ~res.some
    /\ Len(NameLabels(args)) > Len(NameLabels(existing)) => ~res.some

\* a pointer into the middle of existing, found case-insensitively
C10_Witness ==
  /\ pc = "pointed"
  /\ res.some
  /\ PointerOffset(res.ptr) > dec.i
  /\ Len(NameLabels(args)) >= 2
  /\ DecodedLabels(args.buf, args.start, Len(args.buf))
       # DecodedLabels(buf, PointerOffset(res.ptr), Len(buf))

(***************************************************************************)
(* C11: Message::parse returns MessageTooShort for every buffer shorter    *)
(* than the 12-byte header and MessageTooLong for every buffer longer than *)
(* 512 bytes; a buffer of 12 to 512 bytes is never refused as too long,    *)
(* and is accepted when the records it declares end within it.             *)
(***************************************************************************)
C11_SizeLimits ==
  pc \in {"parsed", "rejected", "diverged"} =>
    /\ Len(hist.input) < 12
         => res = [st |-> "err", err |-> "MessageTooShort", len |-> 0]
    /\ Len(hist.input) > 512
         => res = [st |-> "err", err |-> "MessageTooLong", len |-> 0]
    /\ (Len(hist.input) >= 12 /\ Len(hist.input) <= 512) =>
         /\ res.err # "MessageTooLong"
         /\ (WireEnd(hist.input) >= 0 /\ WireEnd(hist.input) <= Len(hist.input))
              => res = [st |-> "ok", err |-> "", len |-> WireEnd(hist.input)]

\* a message of 512 bytes, all of them in use, accepted
C11_Witness ==
  /\ pc = "parsed"
  /\ Len(hist.input) = 512
  /\ res.st = "ok"
  /\ res.len = 512

(***************************************************************************)
(* C12: add_question on a message that holds answers puts the question     *)
(* right behind the last question: the header but for question_count and   *)
(* the questions present keep their bytes, the answers keep theirs shifted *)
(* right by the inserted length, the logical length grows by that length,  *)
(* and answers() yields the same records as before.                        *)
(***************************************************************************)
C12_QuestionSplicedBeforeAnswers ==
  (pc = "build" /\ hist.last.op = "question" /\ AnswerCount(hist.last.buf) >= 1) =>
    LET pre  == hist.last.buf
        prel == hist.last.len
        qe   == WireQuestionsEnd(pre, HEADER_SIZE, QuestionCount(pre))
        n    == len - prel
    IN
    /\ hist.last.at = qe
    /\ n = (hist.last.end - hist.last.at) + 4
    /\ Slice(buf, 0, 4) = Slice(pre, 0, 4)
    /\ Slice(buf, 6, HEADER_SIZE) = Slice(pre, 6, HEADER_SIZE)
    /\ QuestionCount(buf) = QuestionCount(pre) + 1
    /\ Slice(buf, HEADER_SIZE, qe) = Slice(pre, HEADER_SIZE, qe)
    /\ Slice(buf, qe + n, len) = Slice(pre, qe, prel)
    /\ AnswersOf(buf, len) = AnswersOf(pre, prel)

(***************************************************************************)
(* C13 as claimed: an append writes the name as the literal labels of the  *)
(* shortest head whose remaining labels equal, ASCII case-insensitively,   *)
(* a suffix of a question present, then a 2-byte pointer to that boundary, *)
(* or as all labels and a zero byte if no suffix matches; the pointer      *)
(* never targets an answer; the written name decodes to the same label     *)
(* sequence as the input name.                                             *)
(***************************************************************************)
C13_WrittenNameDecodesSame ==
  (pc = "build" /\ hist.last.op # "none") =>
    LET labels == DecodedLabels(hist.last.name.buf, hist.last.name.start,
                                Len(hist.last.name.buf))
    IN
    /\ WrittenName = CompressedName(hist.last.buf, labels)
    /\ WrittenName[Len(WrittenName)] # 0 =>
         PointerOffset(SubSeq(WrittenName, Len(WrittenName) - 1, Len(WrittenName)))
           < WireQuestionsEnd(hist.last.buf, HEADER_SIZE, QuestionCount(hist.last.buf))
    /\ DecodedLabels(buf, hist.last.at, Len(buf)) = labels

(***************************************************************************)
(* C13 amended: the same form of the written name and the same pointer     *)
(* targets; the written name decodes to the label sequence of the input    *)
(* name up to ASCII case: the labels written out are the input's bytes,    *)
(* the labels behind the pointer are spelled as the question spells them.  *)
(***************************************************************************)
C13_WrittenNameDecodesUpToCase ==
  (pc = "build" /\ hist.last.op # "none") =>
    LET labels == DecodedLabels(hist.last.name.buf, hist.last.name.start,
                                Len(hist.last.name.buf))
        heads  == CompressibleHeads(hist.last.buf, labels)
        shown  == DecodedLabels(buf, hist.last.at, Len(buf))
    IN
    /\ WrittenName = CompressedName(hist.last.buf, labels)
    /\ WrittenName[Len(WrittenName)] # 0 =>
         PointerOffset(SubSeq(WrittenName, Len(WrittenName) - 1, Len(WrittenName)))
           < WireQuestionsEnd(hist.last.buf, HEADER_SIZE, QuestionCount(hist.last.buf))
    /\ LowerLabels(shown) = LowerLabels(labels)
    /\ heads = {} => shown = labels
    /\ heads # {} => SubSeq(shown, 1, SetMin(heads)) = SubSeq(labels, 1, SetMin(heads))

\* an answer's name written as one literal label and a pointer into a
\* question, on a message that already holds an answer
C13_Witness ==
  /\ pc = "build"
  /\ hist.last.op = "answer"
  /\ AnswerCount(hist.last.buf) >= 1
  /\ Len(WrittenName) = 4
  /\ WrittenName[1] = 1
  /\ WrittenName[3] >= PTR_MASK

\* C14: reading a name at an offset whose byte has exactly one of the two
\* top bits set (01 or 10) fails.
C14_ReservedLengthByteFails ==
  (pc = "decoded" /\ InBuf(buf, args.start)
     /\ At(buf, args.start) >= 64 /\ At(buf, args.start) < PTR_MASK)
    => ~res.ok

\* C15: a decoded name whose label lengths, added up across the pointers
\* followed (up to eight of them), exceed 255 fails with NameTooLong, and one whose label lengths
\* add up to 255 or less is not rejected for its length (these names being
\* otherwise well formed, it is accepted).
C15_LengthLimit ==
  pc = "decoded" =>
    IF LabelLengthSum(buf, args.start, 8) > 255
    THEN ~res.ok /\ ErrorOf(res.why) = "NameTooLong"
    ELSE res.ok

\* a name of exactly 255 label bytes, part of them behind a pointer, was
\* accepted
C15_Witness ==
  /\ pc = "decoded"
  /\ args.start > 0
  /\ LabelLengthSum(buf, args.start, 8) = 255
  /\ res.ok


\* C16: a header setter changes only the bits of its own field, whatever
\* its argument: every other bit of the header is what it was before the
\* call.
C16_SettersChangeOwnFieldOnly ==
  (pc = "header" /\ hist.op # "none")
    => OtherBits(buf, hist.op) = OtherBits(hist.prev, hist.op)


\* C17: a record appended with kind k and class c is read back by the
\* iterator of its section with kind k and class c.
C17_KindAndClassReadBack ==
  pc = "read" =>
    /\ it.st = "iter"
    /\ it.item.kind = args.kind
    /\ it.item.class = args.class


\* C18: add_question / add_answer with the root name (no label, a single
\* zero byte) completes without aborting and writes the name as exactly one
\* zero byte.
C18_RootNameWritten ==
  (hist.last.op # "none" /\ hist.last.name = NameFromBytes(<<0>>)) =>
    /\ pc \notin {"aborted", "hung"}
    /\ WrittenName = <<0>>


=========================================================================
